---- MODULE Spec2Model ----
(***************************************************************************)
(* A model of lib/runtime-c-api/src/import.rs: the import registry         *)
(* (ImportObject) seen through the C boundary, the tagged value slot used  *)
(* to move one entity or a batch of entities across it, the import         *)
(* descriptors of a module, and the introspection of function entities.    *)
(*                                                                         *)
(* Memory is modelled as a heap of cells.  An address is a natural number; *)
(* every allocation takes the fresh address brk, so an address is never    *)
(* handed out twice and a release of an address that is not live is        *)
(* visible (fault).  NULL is the null pointer and Dangling the non-null    *)
(* pointer of an empty Vec, which owns no allocation.                      *)
(***************************************************************************)
EXTENDS Integers, Sequences, FiniteSets, TLC

VARIABLES
    heap,           \* address -> cell, the live allocations
    brk,            \* the next fresh address
    fault,          \* TRUE once an address that is not live was released
    registry,       \* the ImportObject's map: <<namespace, name>> -> entity
    merged,         \* history: <<namespace, name>> -> the entity of the last record merged under it
    callerImports,  \* the caller's array of wasmer_import_t handed (in slices) to extend
    import_out,     \* the caller's wasmer_import_t that get_import fills
    bufs,           \* the caller's arrays of wasmer_import_t that get_functions fills
    module,         \* the compiled module whose imports are described
    descriptors,    \* the NamedImportDescriptors built for the module (or NoList)
    tagbuf,         \* the caller's wasmer_value_tag buffer and u32 result cell
    last,           \* the boundary call made last: its name, arguments and result
    last_error,     \* the thread's last error message, as update_last_error left it
    calls           \* how many calls of each operation were made

vars == <<heap, brk, fault, registry, merged, callerImports, import_out, bufs,
          module, descriptors, tagbuf, last, last_error, calls>>

----------------------------------------------------------------------------
(* Bounds of the model. *)

\* The longest slice of callerImports one extend call is given.
MaxImports == 2
\* The number of get_import calls in a behaviour.
MaxLookups == 1
\* The capacity of a caller's array given to get_functions.
MaxCap == 2
\* The number of imports of a module.
MaxModuleImports == 4
\* The number of params and returns of a function's signature, together.
MaxSigLen == 3

----------------------------------------------------------------------------
(* Pointers, results, kinds. *)

NULL == 0
Dangling == -1

WASMER_OK == "WASMER_OK"
WASMER_ERROR == "WASMER_ERROR"

WASM_FUNCTION == "WASM_FUNCTION"
WASM_GLOBAL == "WASM_GLOBAL"
WASM_MEMORY == "WASM_MEMORY"
WASM_TABLE == "WASM_TABLE"
Kinds == {WASM_FUNCTION, WASM_GLOBAL, WASM_MEMORY, WASM_TABLE}

\* TryFrom<u32> for wasmer_import_export_kind: the four discriminants, or Err.
KindTryFrom(u) ==
    CASE u = 0 -> [ok |-> TRUE, kind |-> WASM_FUNCTION]
      [] u = 1 -> [ok |-> TRUE, kind |-> WASM_GLOBAL]
      [] u = 2 -> [ok |-> TRUE, kind |-> WASM_MEMORY]
      [] u = 3 -> [ok |-> TRUE, kind |-> WASM_TABLE]
      [] OTHER -> [ok |-> FALSE, kind |-> "none"]

\* wasmer_import_export_kind::to_str, used in the kind-mismatch messages.
KindToStr(k) ==
    CASE k = WASM_FUNCTION -> "function"
      [] k = WASM_GLOBAL -> "global"
      [] k = WASM_MEMORY -> "memory"
      [] k = WASM_TABLE -> "table"

----------------------------------------------------------------------------
(* Entities: the Export enum, and the cells of the heap. *)

FunctionExport(fp, params, returns) ==
    [variant |-> "Function", func |-> fp, ctx |-> "Internal",
     params |-> params, returns |-> returns, handle |-> 0]

HandleExport(variant, h) ==
    [variant |-> variant, func |-> 0, ctx |-> "none",
     params |-> <<>>, returns |-> <<>>, handle |-> h]

NoObj == HandleExport("none", 0)

\* The kind tag of an Export variant (the arms of the matches on Export).
KindOf(export) ==
    CASE export.variant = "Function" -> WASM_FUNCTION
      [] export.variant = "Memory" -> WASM_MEMORY
      [] export.variant = "Table" -> WASM_TABLE
      [] export.variant = "Global" -> WASM_GLOBAL

\* A heap cell.  ty is the Rust type stored there: "Bytes" (a Vec<u8> buffer or the
\* caller's bytes), "Export" (an Export enum), "Memory", "Table", "Global" (a
\* handle struct).  owner is who must release it.
BytesCell(owner, bytes) == [ty |-> "Bytes", owner |-> owner, bytes |-> bytes, obj |-> NoObj]
ObjCell(ty, owner, obj) == [ty |-> ty, owner |-> owner, bytes |-> <<>>, obj |-> obj]

\* The Rust type behind the value slot's pointer for a kind tag.
SlotTy(kind) ==
    CASE kind = WASM_FUNCTION -> "Export"
      [] kind = WASM_MEMORY -> "Memory"
      [] kind = WASM_TABLE -> "Table"
      [] kind = WASM_GLOBAL -> "Global"

\* The handle struct inside Export::Memory / Table / Global (what the match binds).
HandleOf(export) == export

\* wasmer_byte_array: a pointer and a length.
ByteArray(ptr, len) == [bytes |-> ptr, bytes_len |-> len]

\* slice::from_raw_parts(bytes, bytes_len) on a wasmer_byte_array.
SliceOf(h, ba) ==
    IF ba.bytes_len = 0 THEN <<>> ELSE SubSeq(h[ba.bytes].bytes, 1, ba.bytes_len)

----------------------------------------------------------------------------
(* std::str::from_utf8: whether a byte sequence is well-formed UTF-8. *)

IsCont(c) == c >= 128 /\ c <= 191

RECURSIVE Utf8ValidFrom(_, _)
Utf8ValidFrom(b, i) ==
    IF i > Len(b) THEN TRUE
    ELSE LET c == b[i]
             has(n) == i + n <= Len(b)
         IN  CASE c <= 127 -> Utf8ValidFrom(b, i + 1)
               [] c >= 194 /\ c <= 223 ->
                    has(1) /\ IsCont(b[i + 1]) /\ Utf8ValidFrom(b, i + 2)
               [] c = 224 ->
                    has(2) /\ b[i + 1] >= 160 /\ b[i + 1] <= 191 /\ IsCont(b[i + 2])
                    /\ Utf8ValidFrom(b, i + 3)
               [] (c >= 225 /\ c <= 236) \/ c = 238 \/ c = 239 ->
                    has(2) /\ IsCont(b[i + 1]) /\ IsCont(b[i + 2])
                    /\ Utf8ValidFrom(b, i + 3)
               [] c = 237 ->
                    has(2) /\ b[i + 1] >= 128 /\ b[i + 1] <= 159 /\ IsCont(b[i + 2])
                    /\ Utf8ValidFrom(b, i + 3)
               [] c = 240 ->
                    has(3) /\ b[i + 1] >= 144 /\ b[i + 1] <= 191 /\ IsCont(b[i + 2])
                    /\ IsCont(b[i + 3]) /\ Utf8ValidFrom(b, i + 4)
               [] c >= 241 /\ c <= 243 ->
                    has(3) /\ IsCont(b[i + 1]) /\ IsCont(b[i + 2]) /\ IsCont(b[i + 3])
                    /\ Utf8ValidFrom(b, i + 4)
               [] c = 244 ->
                    has(3) /\ b[i + 1] >= 128 /\ b[i + 1] <= 143 /\ IsCont(b[i + 2])
                    /\ IsCont(b[i + 3]) /\ Utf8ValidFrom(b, i + 4)
               [] OTHER -> FALSE

Utf8Valid(b) == Utf8ValidFrom(b, 1)

\* wasmer_byte_array::as_str: the bytes as a str, or a Utf8Error.
as_str(h, ba) ==
    LET b == SliceOf(h, ba)
    IN  IF Utf8Valid(b) THEN [ok |-> TRUE, str |-> b] ELSE [ok |-> FALSE, str |-> <<>>]

----------------------------------------------------------------------------
(* The allocator. *)

\* A heap with `cell` allocated at the fresh address `at`.
Alloc(h, at, cell) == [a \in DOMAIN h \cup {at} |-> IF a = at THEN cell ELSE h[a]]

\* A heap with the allocation at `at` released.
Dealloc(h, at) == [a \in DOMAIN h \ {at} |-> h[a]]

----------------------------------------------------------------------------
(* Error messages: last_error holds the message as a tuple of its parts. *)

NoError == <<>>
ErrTagRange == <<"wasmer_import_export_tag out of range">>
ErrNamespaceUtf8 == <<"error converting namespace to UTF-8 string">>
ErrNameUtf8 == <<"error converting name to UTF-8 string">>
ErrNullOut == <<"pointer to import and import_export_value must not be null">>
ErrFound(found, tag) == <<"Found, expected", found, KindToStr(tag)>>
ErrNotFound(ns, name) == <<"Export not found", ns, name>>
ErrNullArgs == <<"import_object and imports must not be null">>
ErrModuleName == <<"error converting module name to string">>
ErrImportName == <<"error converting import_name to string">>
ErrFuncPtr(op) == <<"func ptr error in", op>>

----------------------------------------------------------------------------
(* The registry (ImportObject).  Its map is held by value in `registry`; the  *)
(* ImportObject itself is one allocation of the heap (wasmer_import_object_new). *)

EmptyRegistry == [k \in {} |-> NoObj]

\* ImportObject::maybe_with_namespace(ns, |ns| ns.get_export(name)): the entity
\* stored under <<ns, name>>, or None.
GetExport(reg, ns, name) ==
    IF <<ns, name>> \in DOMAIN reg
    THEN [some |-> TRUE, export |-> reg[<<ns, name>>]]
    ELSE [some |-> FALSE, export |-> NoObj]

\* ImportObject::extend: the triples are inserted in the order of the list, a
\* triple replacing the entity already stored under its key.
RECURSIVE ImportObjectExtend(_, _, _)
ImportObjectExtend(reg, extensions, i) ==
    IF i > Len(extensions) THEN reg
    ELSE LET e == extensions[i]
             key == <<e[1], e[2]>>
         IN  ImportObjectExtend(
                 [k \in DOMAIN reg \cup {key} |-> IF k = key THEN e[3] ELSE reg[k]],
                 extensions, i + 1)

\* ImportObject::clone_ref().into_iter(): the keys of the entries in one of the
\* orders a hash map may iterate in.
IterationOrders(reg) ==
    {order \in [1..Cardinality(DOMAIN reg) -> DOMAIN reg] :
        \A i, j \in DOMAIN order : i # j => order[i] # order[j]}

----------------------------------------------------------------------------
(* wasmer_import_object_extend *)

\* The Export a record is turned into: a clone of what its value slot points to.
ExportOfImport(h, import) ==
    CASE import.tag = WASM_MEMORY -> HandleExport("Memory", h[import.value].obj.handle)
      [] import.tag = WASM_FUNCTION -> h[import.value].obj
      [] import.tag = WASM_GLOBAL -> HandleExport("Global", h[import.value].obj.handle)
      [] import.tag = WASM_TABLE -> HandleExport("Table", h[import.value].obj.handle)

\* A variant of CollectExtensions that puts each new triple in front of the list,
\* so that of two records with one key the first is inserted last.
RECURSIVE CollectExtensions_Prepend(_, _, _, _)
CollectExtensions_Prepend(h, imports, i, extensions) ==
    IF i > Len(imports)
    THEN [ok |-> TRUE, err |-> NoError, extensions |-> extensions]
    ELSE LET import == imports[i]
             module_name == SliceOf(h, import.module_name)
             import_name == SliceOf(h, import.import_name)
         IN  IF ~Utf8Valid(module_name)
             THEN [ok |-> FALSE, err |-> ErrModuleName, extensions |-> extensions]
             ELSE IF ~Utf8Valid(import_name)
             THEN [ok |-> FALSE, err |-> ErrImportName, extensions |-> extensions]
             ELSE CollectExtensions_Prepend(h, imports, i + 1,
                      <<<<module_name, import_name, ExportOfImport(h, import)>>>>
                          \o extensions)

\* The loop over the records: the list of extensions, or the first decoding error.
RECURSIVE CollectExtensions(_, _, _, _)
CollectExtensions(h, imports, i, extensions) ==
    IF i > Len(imports)
    THEN [ok |-> TRUE, err |-> NoError, extensions |-> extensions]
    ELSE LET import == imports[i]
             module_name == SliceOf(h, import.module_name)
             import_name == SliceOf(h, import.import_name)
         IN  IF ~Utf8Valid(module_name)
             THEN [ok |-> FALSE, err |-> ErrModuleName, extensions |-> extensions]
             ELSE IF ~Utf8Valid(import_name)
             THEN [ok |-> FALSE, err |-> ErrImportName, extensions |-> extensions]
             ELSE CollectExtensions(h, imports, i + 1,
                      Append(extensions,
                             <<module_name, import_name, ExportOfImport(h, import)>>))

\* A variant of ExtendOutcome that, on a decoding error, still inserts the
\* extensions collected before the record that failed.
ExtendOutcome_Partial(h, reg, imports) ==
    LET c == CollectExtensions(h, imports, 1, <<>>)
    IN  [ret |-> IF c.ok THEN WASMER_OK ELSE WASMER_ERROR, err |-> c.err,
         registry |-> ImportObjectExtend(reg, c.extensions, 1)]

\* The whole call: [ret, err, registry].
ExtendOutcome(h, reg, imports) ==
    LET c == CollectExtensions(h, imports, 1, <<>>)
    IN  IF ~c.ok
        THEN [ret |-> WASMER_ERROR, err |-> c.err, registry |-> reg]
        ELSE [ret |-> WASMER_OK, err |-> NoError,
              registry |-> ImportObjectExtend(reg, c.extensions, 1)]

\* History: what a list of records says about each key, read off the list itself:
\* the entity referenced by the last record that names the key.
KeyOfImport(h, import) == <<SliceOf(h, import.module_name), SliceOf(h, import.import_name)>>
ImportIsText(h, import) ==
    /\ Utf8Valid(SliceOf(h, import.module_name))
    /\ Utf8Valid(SliceOf(h, import.import_name))
EntityOfImport(h, import) ==
    IF import.tag = WASM_FUNCTION
    THEN h[import.value].obj
    ELSE HandleExport(h[import.value].ty, h[import.value].obj.handle)
MergedAfter(m, h, imports) ==
    LET keys == {KeyOfImport(h, imports[i]) : i \in DOMAIN imports}
        lastOf(k) == CHOOSE i \in DOMAIN imports :
                        /\ KeyOfImport(h, imports[i]) = k
                        /\ \A j \in DOMAIN imports :
                              KeyOfImport(h, imports[j]) = k => j <= i
    IN  [k \in DOMAIN m \cup keys |->
            IF k \in keys THEN EntityOfImport(h, imports[lastOf(k)]) ELSE m[k]]

\* History: the entities the registry held, before a call, under the keys the
\* call's records name.
Replaced(h, reg, imports) ==
    LET keys == {KeyOfImport(h, imports[i]) : i \in DOMAIN imports}
    IN  [k \in keys \cap DOMAIN reg |-> reg[k]]

\* A variant of the extend call that moves each Function entity out of the
\* caller's box instead of cloning it, which releases the box.
wasmer_import_object_extend_TakesBoxes(imports) ==
    LET r == ExtendOutcome(heap, registry, imports)
        boxes == {imports[i].value : i \in {j \in DOMAIN imports :
                                               imports[j].tag = WASM_FUNCTION}}
    IN  /\ registry' = r.registry
        /\ heap' = IF r.ret = WASMER_OK
                   THEN [a \in DOMAIN heap \ boxes |-> heap[a]]
                   ELSE heap
        /\ last_error' = IF r.ret = WASMER_ERROR THEN r.err ELSE last_error
        /\ last' = [op |-> "extend", ret |-> r.ret, imports |-> imports,
                    replaced |-> Replaced(heap, registry, imports)]
        /\ merged' = IF \A i \in DOMAIN imports : ImportIsText(heap, imports[i])
                     THEN MergedAfter(merged, heap, imports)
                     ELSE merged
        /\ UNCHANGED <<brk, fault, callerImports, import_out, bufs, module,
                       descriptors, tagbuf, calls>>

\* imports is slice::from_raw_parts(imports, imports_len): the caller's records.
wasmer_import_object_extend(imports) ==
    LET r == ExtendOutcome(heap, registry, imports)
    IN  /\ registry' = r.registry
        /\ last_error' = IF r.ret = WASMER_ERROR THEN r.err ELSE last_error
        /\ last' = [op |-> "extend", ret |-> r.ret, imports |-> imports,
                    replaced |-> Replaced(heap, registry, imports)]
        /\ merged' = IF \A i \in DOMAIN imports : ImportIsText(heap, imports[i])
                     THEN MergedAfter(merged, heap, imports)
                     ELSE merged
        /\ UNCHANGED <<heap, brk, fault, callerImports, import_out, bufs, module,
                       descriptors, tagbuf, calls>>

----------------------------------------------------------------------------
(* wasmer_import_object_get_import *)

\* Pointers to the caller's output record and to its value slot.
ImportOutPtr == -2
ValueSlotPtr == -3

\* The caller's wasmer_import_t before anything was written to it.
UninitImport ==
    [module_name |-> ByteArray(NULL, 0), import_name |-> ByteArray(NULL, 0),
     tag |-> "uninit", value |-> NULL]

\* A variant of GetImportOutcome that writes the record's tag as soon as the
\* entity is found, before the kinds are compared.
GetImportOutcome_TagFirst(h, reg, out, namespace, name, import, import_export_value, target, tag) ==
    LET t == KindTryFrom(tag)
        ns == as_str(h, namespace)
        nm == as_str(h, name)
        fail(e) == [ret |-> WASMER_ERROR, err |-> e, heap |-> h, import_out |-> out]
    IN  IF ~t.ok THEN fail(ErrTagRange)
        ELSE IF ~ns.ok THEN fail(ErrNamespaceUtf8)
        ELSE IF ~nm.ok THEN fail(ErrNameUtf8)
        ELSE IF import = NULL \/ import_export_value = NULL THEN fail(ErrNullOut)
        ELSE LET found == GetExport(reg, ns.str, nm.str)
             IN  IF ~found.some THEN fail(ErrNotFound(ns.str, nm.str))
                 ELSE LET export == found.export
                          kind == KindOf(export)
                      IN  IF t.kind # kind
                          THEN [ret |-> WASMER_ERROR,
                                err |-> ErrFound(KindToStr(kind), t.kind), heap |-> h,
                                import_out |-> [out EXCEPT !.tag = kind]]
                          ELSE [ret |-> WASMER_OK, err |-> NoError,
                                heap |-> [h EXCEPT ![target].obj =
                                            IF kind = WASM_FUNCTION THEN export
                                            ELSE HandleOf(export)],
                                import_out |-> [tag |-> kind, value |-> target,
                                                module_name |-> namespace,
                                                import_name |-> name]]

\* A variant of GetImportOutcome that passes the name where the namespace is
\* expected and the namespace where the name is.
GetImportOutcome_Swapped(h, reg, out, namespace, name, import, import_export_value, target, tag) ==
    LET t == KindTryFrom(tag)
        ns == as_str(h, namespace)
        nm == as_str(h, name)
        fail(e) == [ret |-> WASMER_ERROR, err |-> e, heap |-> h, import_out |-> out]
    IN  IF ~t.ok THEN fail(ErrTagRange)
        ELSE IF ~ns.ok THEN fail(ErrNamespaceUtf8)
        ELSE IF ~nm.ok THEN fail(ErrNameUtf8)
        ELSE IF import = NULL \/ import_export_value = NULL THEN fail(ErrNullOut)
        ELSE LET found == GetExport(reg, nm.str, ns.str)
             IN  IF ~found.some THEN fail(ErrNotFound(ns.str, nm.str))
                 ELSE LET export == found.export
                          kind == KindOf(export)
                      IN  IF t.kind # kind
                          THEN fail(ErrFound(KindToStr(kind), t.kind))
                          ELSE [ret |-> WASMER_OK, err |-> NoError,
                                heap |-> [h EXCEPT ![target].obj =
                                            IF kind = WASM_FUNCTION THEN export
                                            ELSE HandleOf(export)],
                                import_out |-> [tag |-> kind, value |-> target,
                                                module_name |-> namespace,
                                                import_name |-> name]]

\* A variant of GetImportOutcome that fills the record without writing the clone
\* to the storage the value slot points to.
GetImportOutcome_NoClone(h, reg, out, namespace, name, import, import_export_value, target, tag) ==
    LET t == KindTryFrom(tag)
        ns == as_str(h, namespace)
        nm == as_str(h, name)
        fail(e) == [ret |-> WASMER_ERROR, err |-> e, heap |-> h, import_out |-> out]
    IN  IF ~t.ok THEN fail(ErrTagRange)
        ELSE IF ~ns.ok THEN fail(ErrNamespaceUtf8)
        ELSE IF ~nm.ok THEN fail(ErrNameUtf8)
        ELSE IF import = NULL \/ import_export_value = NULL THEN fail(ErrNullOut)
        ELSE LET found == GetExport(reg, ns.str, nm.str)
             IN  IF ~found.some THEN fail(ErrNotFound(ns.str, nm.str))
                 ELSE LET export == found.export
                          kind == KindOf(export)
                      IN  IF t.kind # kind
                          THEN fail(ErrFound(KindToStr(kind), t.kind))
                          ELSE [ret |-> WASMER_OK, err |-> NoError, heap |-> h,
                                import_out |-> [tag |-> kind, value |-> target,
                                                module_name |-> namespace,
                                                import_name |-> name]]

\* A variant of GetImportOutcome that copies the namespace and the name into the
\* record before it looks the entity up.
GetImportOutcome_NamesFirst(h, reg, out, namespace, name, import, import_export_value, target, tag) ==
    LET t == KindTryFrom(tag)
        ns == as_str(h, namespace)
        nm == as_str(h, name)
        fail(e) == [ret |-> WASMER_ERROR, err |-> e, heap |-> h, import_out |-> out]
    IN  IF ~t.ok THEN fail(ErrTagRange)
        ELSE IF ~ns.ok THEN fail(ErrNamespaceUtf8)
        ELSE IF ~nm.ok THEN fail(ErrNameUtf8)
        ELSE IF import = NULL \/ import_export_value = NULL THEN fail(ErrNullOut)
        ELSE LET found == GetExport(reg, ns.str, nm.str)
                 named == [out EXCEPT !.module_name = namespace, !.import_name = name]
             IN  IF ~found.some
                 THEN [ret |-> WASMER_ERROR, err |-> ErrNotFound(ns.str, nm.str),
                       heap |-> h, import_out |-> named]
                 ELSE LET export == found.export
                          kind == KindOf(export)
                      IN  IF t.kind # kind
                          THEN fail(ErrFound(KindToStr(kind), t.kind))
                          ELSE [ret |-> WASMER_OK, err |-> NoError,
                                heap |-> [h EXCEPT ![target].obj =
                                            IF kind = WASM_FUNCTION THEN export
                                            ELSE HandleOf(export)],
                                import_out |-> [tag |-> kind, value |-> target,
                                                module_name |-> namespace,
                                                import_name |-> name]]

\* The whole call: [ret, err, heap, import_out].  namespace and name are
\* wasmer_byte_arrays, import and import_export_value the two output pointers,
\* target the pointer the caller stored in the value slot, tag the u32.
GetImportOutcome(h, reg, out, namespace, name, import, import_export_value, target, tag) ==
    LET t == KindTryFrom(tag)
        ns == as_str(h, namespace)
        nm == as_str(h, name)
        fail(e) == [ret |-> WASMER_ERROR, err |-> e, heap |-> h, import_out |-> out]
    IN  IF ~t.ok THEN fail(ErrTagRange)
        ELSE IF ~ns.ok THEN fail(ErrNamespaceUtf8)
        ELSE IF ~nm.ok THEN fail(ErrNameUtf8)
        ELSE IF import = NULL \/ import_export_value = NULL THEN fail(ErrNullOut)
        ELSE LET found == GetExport(reg, ns.str, nm.str)
             IN  IF ~found.some THEN fail(ErrNotFound(ns.str, nm.str))
                 ELSE LET export == found.export
                          kind == KindOf(export)
                      IN  IF t.kind # kind
                          THEN fail(ErrFound(KindToStr(kind), t.kind))
                          ELSE [ret |-> WASMER_OK, err |-> NoError,
                                heap |-> [h EXCEPT ![target].obj =
                                            IF kind = WASM_FUNCTION THEN export
                                            ELSE HandleOf(export)],
                                import_out |-> [tag |-> kind, value |-> target,
                                                module_name |-> namespace,
                                                import_name |-> name]]

\* The caller's byte arrays: its own bytes, whole.
CallerStrings == {a \in DOMAIN heap : heap[a].ty = "Bytes" /\ heap[a].owner = "caller"}
StringArg(a) == ByteArray(a, Len(heap[a].bytes))

\* The storage the caller may point the value slot at for a tag: storage of the
\* type the tag names (any of its out storage for a tag that names none).
OutStorage(tag) ==
    {a \in DOMAIN heap :
        /\ heap[a].owner = "out"
        /\ KindTryFrom(tag).ok => heap[a].ty = SlotTy(KindTryFrom(tag).kind)}

wasmer_import_object_get_import(ns, name, import, import_export_value, tag) ==
    /\ calls.get_import < MaxLookups
    /\ \E target \in OutStorage(tag) :
         LET r == GetImportOutcome(heap, registry, import_out, StringArg(ns),
                                   StringArg(name), import, import_export_value,
                                   target, tag)
         IN  /\ heap' = r.heap
             /\ import_out' = r.import_out
             /\ last_error' = IF r.ret = WASMER_ERROR THEN r.err ELSE last_error
             /\ last' = [op |-> "get_import", ret |-> r.ret, namespace |-> ns,
                         name |-> name, import |-> import,
                         import_export_value |-> import_export_value,
                         slot |-> target, tag |-> tag]
    /\ calls' = [calls EXCEPT !.get_import = @ + 1]
    /\ UNCHANGED <<brk, fault, registry, merged, callerImports, bufs, module,
                   descriptors, tagbuf>>

----------------------------------------------------------------------------
(* wasmer_import_object_get_functions *)

\* The caller's arrays.
BufIds == {1, 2}

\* String::clone().into_bytes() forgotten: a Vec<u8> whose capacity is its length.
\* An empty Vec owns no allocation and its pointer dangles.  [ptr, heap, brk].
VecOfBytes(h, b, bytes) ==
    IF Len(bytes) = 0
    THEN [ptr |-> Dangling, heap |-> h, brk |-> b]
    ELSE [ptr |-> b, heap |-> Alloc(h, b, BytesCell("bridge", bytes)), brk |-> b + 1]

\* A variant of GetFunctionsLoop whose capacity test is i > imports_len.
RECURSIVE GetFunctionsLoop_OffByOne(_, _, _, _, _)
GetFunctionsLoop_OffByOne(st, reg, order, pos, imports_len) ==
    IF pos > Len(order) THEN st
    ELSE IF st.i > imports_len THEN st
    ELSE LET namespace == order[pos][1]
             name == order[pos][2]
             export == reg[order[pos]]
         IN  IF export.variant = "Function"
             THEN LET ns == VecOfBytes(st.heap, st.brk, namespace)
                      nm == VecOfBytes(ns.heap, ns.brk, name)
                      func == nm.brk
                      new_entry ==
                          [module_name |-> ByteArray(ns.ptr, Len(namespace)),
                           import_name |-> ByteArray(nm.ptr, Len(name)),
                           tag |-> WASM_FUNCTION,
                           value |-> func]
                  IN  GetFunctionsLoop_OffByOne(
                          [i |-> st.i + 1,
                           heap |-> Alloc(nm.heap, func, ObjCell("Export", "bridge", export)),
                           brk |-> func + 1,
                           recs |-> [st.recs EXCEPT ![st.i + 1] = new_entry]],
                          reg, order, pos + 1, imports_len)
             ELSE GetFunctionsLoop_OffByOne(st, reg, order, pos + 1, imports_len)

\* A variant of GetFunctionsLoop without the match on the Export variant: every
\* entry is written.
RECURSIVE GetFunctionsLoop_AllKinds(_, _, _, _, _)
GetFunctionsLoop_AllKinds(st, reg, order, pos, imports_len) ==
    IF pos > Len(order) THEN st
    ELSE IF st.i + 1 > imports_len THEN st
    ELSE LET namespace == order[pos][1]
             name == order[pos][2]
             export == reg[order[pos]]
             ns == VecOfBytes(st.heap, st.brk, namespace)
             nm == VecOfBytes(ns.heap, ns.brk, name)
             func == nm.brk
             new_entry ==
                 [module_name |-> ByteArray(ns.ptr, Len(namespace)),
                  import_name |-> ByteArray(nm.ptr, Len(name)),
                  tag |-> WASM_FUNCTION,
                  value |-> func]
         IN  GetFunctionsLoop_AllKinds(
                 [i |-> st.i + 1,
                  heap |-> Alloc(nm.heap, func, ObjCell("Export", "bridge", export)),
                  brk |-> func + 1,
                  recs |-> [st.recs EXCEPT ![st.i + 1] = new_entry]],
                 reg, order, pos + 1, imports_len)

\* The loop over the registry's entries in iteration order.  st is
\* [i, heap, brk, recs]: the count written, the heap, and the caller's array.
RECURSIVE GetFunctionsLoop(_, _, _, _, _)
GetFunctionsLoop(st, reg, order, pos, imports_len) ==
    IF pos > Len(order) THEN st
    ELSE IF st.i + 1 > imports_len THEN st
    ELSE LET namespace == order[pos][1]
             name == order[pos][2]
             export == reg[order[pos]]
         IN  IF export.variant = "Function"
             THEN LET ns == VecOfBytes(st.heap, st.brk, namespace)
                      nm == VecOfBytes(ns.heap, ns.brk, name)
                      func == nm.brk
                      new_entry ==
                          [module_name |-> ByteArray(ns.ptr, Len(namespace)),
                           import_name |-> ByteArray(nm.ptr, Len(name)),
                           tag |-> WASM_FUNCTION,
                           value |-> func]
                  IN  GetFunctionsLoop(
                          [i |-> st.i + 1,
                           heap |-> Alloc(nm.heap, func, ObjCell("Export", "bridge", export)),
                           brk |-> func + 1,
                           recs |-> [st.recs EXCEPT ![st.i + 1] = new_entry]],
                          reg, order, pos + 1, imports_len)
             ELSE GetFunctionsLoop(st, reg, order, pos + 1, imports_len)

\* A variant of GetFunctionsOutcome that reports an absent pointer as an array in
\* which no record fits.
GetFunctionsOutcome_ZeroOnNull(h, b, reg, import_object, imports, recs, imports_len, order) ==
    IF import_object = NULL \/ imports = NULL
    THEN [ret |-> 0, err |-> ErrNullArgs, heap |-> h, brk |-> b, recs |-> recs]
    ELSE LET st == GetFunctionsLoop([i |-> 0, heap |-> h, brk |-> b, recs |-> recs],
                                    reg, order, 1, imports_len)
         IN  [ret |-> st.i, err |-> NoError, heap |-> st.heap, brk |-> st.brk,
              recs |-> st.recs]

\* The whole call: [ret, err, heap, brk, recs].  recs is the caller's array (used
\* only when imports is not NULL).
GetFunctionsOutcome(h, b, reg, import_object, imports, recs, imports_len, order) ==
    IF import_object = NULL \/ imports = NULL
    THEN [ret |-> -1, err |-> ErrNullArgs, heap |-> h, brk |-> b, recs |-> recs]
    ELSE LET st == GetFunctionsLoop([i |-> 0, heap |-> h, brk |-> b, recs |-> recs],
                                    reg, order, 1, imports_len)
         IN  [ret |-> st.i, err |-> NoError, heap |-> st.heap, brk |-> st.brk,
              recs |-> st.recs]

\* A caller's array nothing was written to: MaxCap records and the memory behind
\* the last of them (record MaxCap + 1), no count received, and (history) the
\* allocations made for it.
EmptyBuf == [recs |-> [i \in 1..(MaxCap + 1) |-> UninitImport], count |-> -1, allocs |-> {}]

\* A variant of the get_functions call that iterates over the ImportObject itself
\* instead of a clone_ref() of it, which empties it.
wasmer_import_object_get_functions_Drain(import_object, imports, imports_len, order) ==
    /\ imports # NULL => bufs[imports] = EmptyBuf
    /\ LET recs == IF imports = NULL THEN <<>> ELSE bufs[imports].recs
           r == GetFunctionsOutcome(heap, brk, registry, import_object, imports,
                                    recs, imports_len, order)
       IN  /\ heap' = r.heap
           /\ brk' = r.brk
           /\ bufs' = IF imports = NULL \/ r.ret = -1 THEN bufs
                      ELSE [bufs EXCEPT ![imports] =
                              [recs |-> r.recs, count |-> r.ret,
                               allocs |-> DOMAIN r.heap \ DOMAIN heap]]
           /\ registry' = IF r.ret = -1 THEN registry ELSE EmptyRegistry
           /\ last_error' = IF r.ret = -1 THEN r.err ELSE last_error
           /\ last' = [op |-> "get_functions", ret |-> r.ret,
                       import_object |-> import_object, imports |-> imports,
                       imports_len |-> imports_len]
    /\ UNCHANGED <<fault, merged, callerImports, import_out, module,
                   descriptors, tagbuf, calls>>

\* The caller hands an array it has not used before.
wasmer_import_object_get_functions(import_object, imports, imports_len, order) ==
    /\ imports # NULL => bufs[imports] = EmptyBuf
    /\ LET recs == IF imports = NULL THEN <<>> ELSE bufs[imports].recs
           r == GetFunctionsOutcome(heap, brk, registry, import_object, imports,
                                    recs, imports_len, order)
       IN  /\ heap' = r.heap
           /\ brk' = r.brk
           /\ bufs' = IF imports = NULL \/ r.ret = -1 THEN bufs
                      ELSE [bufs EXCEPT ![imports] =
                              [recs |-> r.recs, count |-> r.ret,
                               allocs |-> DOMAIN r.heap \ DOMAIN heap]]
           /\ last_error' = IF r.ret = -1 THEN r.err ELSE last_error
           /\ last' = [op |-> "get_functions", ret |-> r.ret,
                       import_object |-> import_object, imports |-> imports,
                       imports_len |-> imports_len]
    /\ UNCHANGED <<fault, registry, merged, callerImports, import_out, module,
                   descriptors, tagbuf, calls>>

----------------------------------------------------------------------------
(* wasmer_import_object_imports_destroy *)

\* The release of the allocation at ptr: [heap, fault].  Releasing an address that
\* is not live is a fault.
Release(st, ptr) ==
    IF ptr \in DOMAIN st.heap
    THEN [heap |-> Dealloc(st.heap, ptr), fault |-> st.fault]
    ELSE [heap |-> st.heap, fault |-> TRUE]

\* A variant of DropVec that forgets the Vec instead of dropping it.
DropVec_Forget(st, ba) == st

\* Vec::from_raw_parts(ptr, len, len) dropped: a Vec of capacity 0 releases nothing.
DropVec(st, ba) == IF ba.bytes_len = 0 THEN st ELSE Release(st, ba.bytes)

\* The loop over the records: [heap, fault].
RECURSIVE ImportsDestroyLoop(_, _, _, _)
ImportsDestroyLoop(st, recs, i, imports_len) ==
    IF i > imports_len THEN st
    ELSE LET import == recs[i]
             s1 == DropVec(st, import.module_name)
             s2 == DropVec(s1, import.import_name)
             s3 == Release(s2, import.value)
         IN  ImportsDestroyLoop(s3, recs, i + 1, imports_len)

\* The caller destroys an array get_functions filled, once, with the count it got.
wasmer_import_object_imports_destroy(imports) ==
    /\ bufs[imports].count >= 0
    /\ LET r == ImportsDestroyLoop([heap |-> heap, fault |-> fault],
                                   bufs[imports].recs, 1, bufs[imports].count)
       IN  /\ heap' = r.heap
           /\ fault' = r.fault
    /\ bufs' = [bufs EXCEPT ![imports].count = -1]
    /\ last' = [op |-> "imports_destroy", ret |-> "void", imports |-> imports,
                imports_len |-> bufs[imports].count]
    /\ UNCHANGED <<brk, registry, merged, callerImports, import_out, module,
                   descriptors, tagbuf, last_error, calls>>

----------------------------------------------------------------------------
(* Import descriptors of a module. *)

\* The pointers to the caller's module and to the boxed NamedImportDescriptors.
ModulePtr == -4
DescriptorsPtr == -5
\* The pointer to element idx of the list (what wasmer_import_descriptors_get
\* returns).
DescriptorPtr(idx) == <<"descriptor", idx>>

ImportName(namespace_index, name_index) ==
    [namespace_index |-> namespace_index, name_index |-> name_index]

\* StringTable::get: the string interned under an index (indices count from 0).
StringTableGet(table, index) == table[index + 1]

NamedImportDescriptor(m, import_name, kind) ==
    [module |-> StringTableGet(m.namespace_table, import_name.namespace_index),
     name |-> StringTableGet(m.name_table, import_name.name_index),
     kind |-> kind]

\* A variant of DescriptorsOf that walks the global imports before the table
\* imports.
DescriptorsOf_GlobalsFirst(m) ==
    [i \in DOMAIN m.imported_functions |->
        NamedImportDescriptor(m, m.imported_functions[i], WASM_FUNCTION)]
    \o [i \in DOMAIN m.imported_globals |->
        NamedImportDescriptor(m, m.imported_globals[i][1], WASM_GLOBAL)]
    \o [i \in DOMAIN m.imported_tables |->
        NamedImportDescriptor(m, m.imported_tables[i][1], WASM_TABLE)]
    \o [i \in DOMAIN m.imported_memories |->
        NamedImportDescriptor(m, m.imported_memories[i][1], WASM_MEMORY)]

\* The four loops of wasmer_import_descriptors: the Vec they push to.
DescriptorsOf(m) ==
    [i \in DOMAIN m.imported_functions |->
        NamedImportDescriptor(m, m.imported_functions[i], WASM_FUNCTION)]
    \o [i \in DOMAIN m.imported_tables |->
        NamedImportDescriptor(m, m.imported_tables[i][1], WASM_TABLE)]
    \o [i \in DOMAIN m.imported_globals |->
        NamedImportDescriptor(m, m.imported_globals[i][1], WASM_GLOBAL)]
    \o [i \in DOMAIN m.imported_memories |->
        NamedImportDescriptor(m, m.imported_memories[i][1], WASM_MEMORY)]

\* No list was built.
NoList == [built |-> FALSE, list |-> <<>>]

wasmer_import_descriptors(m) ==
    /\ descriptors' = [built |-> TRUE, list |-> DescriptorsOf(module)]
    /\ last' = [op |-> "import_descriptors", ret |-> "void", module |-> m]
    /\ UNCHANGED <<heap, brk, fault, registry, merged, callerImports, import_out,
                   bufs, module, tagbuf, last_error, calls>>

wasmer_import_descriptors_len(exports) ==
    /\ last' = [op |-> "import_descriptors_len", exports |-> exports,
                ret |-> IF exports = NULL THEN 0 ELSE Len(descriptors.list)]
    /\ UNCHANGED <<heap, brk, fault, registry, merged, callerImports, import_out,
                   bufs, module, descriptors, tagbuf, last_error, calls>>

\* Indexing the Vec past its end panics.
wasmer_import_descriptors_get(import_descriptors, idx) ==
    /\ last' = [op |-> "import_descriptors_get",
                import_descriptors |-> import_descriptors, idx |-> idx,
                ret |-> IF import_descriptors = NULL THEN <<"null">>
                        ELSE IF idx >= Len(descriptors.list) THEN <<"panic">>
                        ELSE DescriptorPtr(idx)]
    /\ UNCHANGED <<heap, brk, fault, registry, merged, callerImports, import_out,
                   bufs, module, descriptors, tagbuf, last_error, calls>>

\* The NamedImportDescriptor behind a pointer wasmer_import_descriptors_get gave.
DescriptorAt(import_descriptor) == descriptors.list[import_descriptor[2] + 1]
\* The wasmer_byte_array over a String: its bytes (for the pointer to them) and
\* its length.
ByteArrayOver(str) == [bytes |-> str, bytes_len |-> Len(str)]

wasmer_import_descriptor_name(import_descriptor) ==
    /\ last' = [op |-> "import_descriptor_name", import_descriptor |-> import_descriptor,
                ret |-> ByteArrayOver(DescriptorAt(import_descriptor).name)]
    /\ UNCHANGED <<heap, brk, fault, registry, merged, callerImports, import_out,
                   bufs, module, descriptors, tagbuf, last_error, calls>>

wasmer_import_descriptor_module_name(import_descriptor) ==
    /\ last' = [op |-> "import_descriptor_module_name",
                import_descriptor |-> import_descriptor,
                ret |-> ByteArrayOver(DescriptorAt(import_descriptor).module)]
    /\ UNCHANGED <<heap, brk, fault, registry, merged, callerImports, import_out,
                   bufs, module, descriptors, tagbuf, last_error, calls>>

wasmer_import_descriptor_kind(export) ==
    /\ last' = [op |-> "import_descriptor_kind", import_descriptor |-> export,
                ret |-> DescriptorAt(export).kind]
    /\ UNCHANGED <<heap, brk, fault, registry, merged, callerImports, import_out,
                   bufs, module, descriptors, tagbuf, last_error, calls>>

----------------------------------------------------------------------------
(* Function entities. *)

ValueTags == {"WASM_I32", "WASM_I64", "WASM_F32", "WASM_F64"}

\* From<wasmer_value_tag> for Type, and From<&Type> for wasmer_value_tag.
TagToType(tag) ==
    CASE tag = "WASM_I32" -> "I32"
      [] tag = "WASM_I64" -> "I64"
      [] tag = "WASM_F32" -> "F32"
      [] tag = "WASM_F64" -> "F64"
TypeToTag(ty) ==
    CASE ty = "I32" -> "WASM_I32"
      [] ty = "I64" -> "WASM_I64"
      [] ty = "F32" -> "WASM_F32"
      [] ty = "F64" -> "WASM_F64"

\* The address of the host function handed to wasmer_import_func_new.
HostFunc == 7

\* A variant of FuncNewOutcome that builds the signature with the returns in the
\* place of the params and the params in the place of the returns.
FuncNewOutcome_SwappedSig(h, b, func, params, returns) ==
    [ptr |-> b,
     heap |-> Alloc(h, b, ObjCell("Export", "caller",
                 FunctionExport(func, [i \in DOMAIN returns |-> TagToType(returns[i])],
                                [i \in DOMAIN params |-> TagToType(params[i])]))),
     brk |-> b + 1]

\* The box wasmer_import_func_new makes from the two slices of tags: [ptr, heap, brk].
FuncNewOutcome(h, b, func, params, returns) ==
    [ptr |-> b,
     heap |-> Alloc(h, b, ObjCell("Export", "caller",
                 FunctionExport(func, [i \in DOMAIN params |-> TagToType(params[i])],
                                [i \in DOMAIN returns |-> TagToType(returns[i])]))),
     brk |-> b + 1]

\* params and returns are the caller's buffers of tags, read over params_len and
\* returns_len elements.
wasmer_import_func_new(func, params_len, returns_len) ==
    LET r == FuncNewOutcome(heap, brk, func, SubSeq(tagbuf.params, 1, params_len),
                            SubSeq(tagbuf.returns, 1, returns_len))
    IN  /\ heap' = r.heap
        /\ brk' = r.brk
        /\ last' = [op |-> "func_new", ret |-> r.ptr]
        /\ UNCHANGED <<fault, registry, merged, callerImports, import_out, bufs,
                       module, descriptors, tagbuf, last_error, calls>>

\* A variant of ArityOutcome that does not look at the Export's variant.
ArityOutcome_Unchecked(export, types, result, op) ==
    [ret |-> WASMER_OK, err |-> NoError, result |-> <<Len(types)>>]

\* wasmer_import_func_params_arity / _returns_arity on the Export behind func,
\* types being the signature's params or returns: [ret, err, result].  The u32
\* behind result is <<n>> once n was written to it, <<>> before.
ArityOutcome(export, types, result, op) ==
    IF export.variant = "Function"
    THEN [ret |-> WASMER_OK, err |-> NoError, result |-> <<Len(types)>>]
    ELSE [ret |-> WASMER_ERROR, err |-> ErrFuncPtr(op), result |-> result]

\* wasmer_import_func_params / _returns: [ret, err, buf].  Writing element i of a
\* slice of len elements panics when i >= len.
TypesOutcome(export, types, buf, len, op) ==
    IF export.variant = "Function"
    THEN [ret |-> IF Len(types) > len THEN "panic" ELSE WASMER_OK, err |-> NoError,
          buf |-> [i \in DOMAIN buf |->
                    IF i <= Len(types) /\ i <= len THEN TypeToTag(types[i]) ELSE buf[i]]]
    ELSE [ret |-> WASMER_ERROR, err |-> ErrFuncPtr(op), buf |-> buf]

wasmer_import_func_params_arity(func) ==
    LET export == heap[func].obj
        r == ArityOutcome(export, export.params, tagbuf.result,
                          "wasmer_import_func_params_arity")
    IN  /\ tagbuf' = [tagbuf EXCEPT !.result = r.result]
        /\ last_error' = IF r.ret = WASMER_ERROR THEN r.err ELSE last_error
        /\ last' = [op |-> "func_params_arity", ret |-> r.ret, func |-> func]
        /\ UNCHANGED <<heap, brk, fault, registry, merged, callerImports, import_out,
                       bufs, module, descriptors, calls>>

wasmer_import_func_returns_arity(func) ==
    LET export == heap[func].obj
        r == ArityOutcome(export, export.returns, tagbuf.result,
                          "wasmer_import_func_results_arity")
    IN  /\ tagbuf' = [tagbuf EXCEPT !.result = r.result]
        /\ last_error' = IF r.ret = WASMER_ERROR THEN r.err ELSE last_error
        /\ last' = [op |-> "func_returns_arity", ret |-> r.ret, func |-> func]
        /\ UNCHANGED <<heap, brk, fault, registry, merged, callerImports, import_out,
                       bufs, module, descriptors, calls>>

wasmer_import_func_params(func, params_len) ==
    LET export == heap[func].obj
        r == TypesOutcome(export, export.params, tagbuf.buf, params_len,
                          "wasmer_import_func_params")
    IN  /\ tagbuf' = [tagbuf EXCEPT !.buf = r.buf]
        /\ last_error' = IF r.ret = WASMER_ERROR THEN r.err ELSE last_error
        /\ last' = [op |-> "func_params", ret |-> r.ret, func |-> func,
                    len |-> params_len]
        /\ UNCHANGED <<heap, brk, fault, registry, merged, callerImports, import_out,
                       bufs, module, descriptors, calls>>

wasmer_import_func_returns(func, returns_len) ==
    LET export == heap[func].obj
        r == TypesOutcome(export, export.returns, tagbuf.buf, returns_len,
                          "wasmer_import_func_returns")
    IN  /\ tagbuf' = [tagbuf EXCEPT !.buf = r.buf]
        /\ last_error' = IF r.ret = WASMER_ERROR THEN r.err ELSE last_error
        /\ last' = [op |-> "func_returns", ret |-> r.ret, func |-> func,
                    len |-> returns_len]
        /\ UNCHANGED <<heap, brk, fault, registry, merged, callerImports, import_out,
                       bufs, module, descriptors, calls>>

----------------------------------------------------------------------------
(* wasmer_import_func_destroy, wasmer_import_object_destroy *)

\* Box::from_raw(func as *mut Export) dropped, unless func is null.
wasmer_import_func_destroy(func) ==
    LET st == IF func = NULL THEN [heap |-> heap, fault |-> fault]
              ELSE Release([heap |-> heap, fault |-> fault], func)
    IN  /\ heap' = st.heap
        /\ fault' = st.fault
        /\ last' = [op |-> "func_destroy", ret |-> WASMER_OK, func |-> func]
        /\ UNCHANGED <<brk, registry, merged, callerImports, import_out, bufs, module,
                       descriptors, tagbuf, last_error, calls>>

\* Box::from_raw(import_object as *mut ImportObject) dropped, unless import_object
\* is null: the ImportObject goes, and the entities it holds go with it.
wasmer_import_object_destroy(import_object) ==
    LET st == IF import_object = NULL THEN [heap |-> heap, fault |-> fault]
              ELSE Release([heap |-> heap, fault |-> fault], import_object)
    IN  /\ heap' = st.heap
        /\ fault' = st.fault
        /\ registry' = IF import_object = NULL THEN registry ELSE EmptyRegistry
        /\ last' = [op |-> "object_destroy", ret |-> WASMER_OK,
                    import_object |-> import_object]
        /\ UNCHANGED <<brk, merged, callerImports, import_out, bufs, module,
                       descriptors, tagbuf, last_error, calls>>

----------------------------------------------------------------------------
(* The caller's memory at the start. *)

\* "fé", "" and a name cut in the middle of a two-byte character.
BytesFe == <<102, 195, 169>>
BytesEmpty == <<>>
BytesCut == <<102, 195>>

Func1 == FunctionExport(1, <<"I32">>, <<>>)
Func2 == FunctionExport(2, <<"I64", "F32">>, <<"I32">>)

\* Addresses 1-3: the caller's name bytes; 4-8: its entities (two functions made
\* by wasmer_import_func_new, a memory, a table, a global); 9-12: initialised
\* storage of each type for get_import to write to; 13: the ImportObject.
CallerHeap ==
    <<BytesCell("caller", BytesFe), BytesCell("caller", BytesEmpty),
      BytesCell("caller", BytesCut),
      ObjCell("Export", "caller", Func1), ObjCell("Export", "caller", Func2),
      ObjCell("Memory", "caller", HandleExport("Memory", 1)),
      ObjCell("Table", "caller", HandleExport("Table", 1)),
      ObjCell("Global", "caller", HandleExport("Global", 1)),
      ObjCell("Export", "out", FunctionExport(0, <<>>, <<>>)),
      ObjCell("Memory", "out", HandleExport("Memory", 0)),
      ObjCell("Table", "out", HandleExport("Table", 0)),
      ObjCell("Global", "out", HandleExport("Global", 0)),
      ObjCell("ImportObject", "caller", NoObj)>>

ImportRecord(h, ns, name, tag, value) ==
    [module_name |-> ByteArray(ns, Len(h[ns].bytes)),
     import_name |-> ByteArray(name, Len(h[name].bytes)),
     tag |-> tag, value |-> value]

\* The caller's array of records.
CallerArray ==
    <<ImportRecord(CallerHeap, 1, 1, WASM_FUNCTION, 4),
      ImportRecord(CallerHeap, 1, 1, WASM_FUNCTION, 5),
      ImportRecord(CallerHeap, 2, 1, WASM_FUNCTION, 4),
      ImportRecord(CallerHeap, 1, 2, WASM_MEMORY, 6),
      ImportRecord(CallerHeap, 1, 2, WASM_FUNCTION, 5),
      ImportRecord(CallerHeap, 3, 1, WASM_FUNCTION, 5),
      ImportRecord(CallerHeap, 2, 3, WASM_TABLE, 7),
      ImportRecord(CallerHeap, 1, 1, WASM_GLOBAL, 8),
      ImportRecord(CallerHeap, 2, 1, WASM_TABLE, 7)>>

NoModule == [imported_functions |-> <<>>, imported_tables |-> <<>>,
             imported_globals |-> <<>>, imported_memories |-> <<>>,
             namespace_table |-> <<>>, name_table |-> <<>>]
NoTags == [params |-> <<>>, returns |-> <<>>, buf |-> <<>>, result |-> <<>>]
NoCalls == [get_import |-> 0]

\* The state after construction: an empty registry (wasmer_import_object_new),
\* over the caller's memory h, its records, its module m and its tag buffers t.
Start(h, imports, m, t) ==
    /\ heap = h
    /\ brk = Len(h) + 1
    /\ fault = FALSE
    /\ registry = EmptyRegistry
    /\ merged = EmptyRegistry
    /\ callerImports = imports
    /\ import_out = UninitImport
    /\ bufs = [b \in BufIds |-> EmptyBuf]
    /\ module = m
    /\ descriptors = NoList
    /\ tagbuf = t
    /\ last = [op |-> "none", ret |-> "none"]
    /\ last_error = NoError
    /\ calls = NoCalls

Init == Start(CallerHeap, CallerArray, NoModule, NoTags)

\* The modules: up to MaxModuleImports imports over two names, cut into the four
\* import tables; the two string tables hold different strings ("e", "h" and
\* "f", the empty name).
NamespaceTable == <<<<101>>, <<104>>>>
NameTable == <<<<102>>, <<>>>>
ImportNames == {ImportName(0, 1), ImportName(1, 0)}
WithDescriptor(names, d) == [i \in DOMAIN names |-> <<names[i], d>>]
Modules ==
    {[imported_functions |-> SubSeq(s, 1, c[1]),
      imported_tables |-> WithDescriptor(SubSeq(s, c[1] + 1, c[2]), "TableDescriptor"),
      imported_globals |-> WithDescriptor(SubSeq(s, c[2] + 1, c[3]), "GlobalDescriptor"),
      imported_memories |-> WithDescriptor(SubSeq(s, c[3] + 1, Len(s)), "MemoryDescriptor"),
      namespace_table |-> NamespaceTable, name_table |-> NameTable] :
        <<s, c>> \in {x \in (UNION {[1..n -> ImportNames] : n \in 0..MaxModuleImports})
                            \X ((0..MaxModuleImports) \X (0..MaxModuleImports)
                                    \X (0..MaxModuleImports)) :
                        x[2][1] <= x[2][2] /\ x[2][2] <= x[2][3] /\ x[2][3] <= Len(x[1])}}

InitDesc == \E m \in Modules : Start(CallerHeap, CallerArray, m, NoTags)

\* The caller's memory when it makes a function: 1: the bytes of "fé"; 2-4:
\* Exports that are not functions; 5: initialised storage for get_import to
\* write a function to; 6: the ImportObject.
FuncHeap ==
    <<BytesCell("caller", BytesFe),
      ObjCell("Export", "caller", HandleExport("Memory", 1)),
      ObjCell("Export", "caller", HandleExport("Table", 1)),
      ObjCell("Export", "caller", HandleExport("Global", 1)),
      ObjCell("Export", "out", FunctionExport(0, <<>>, <<>>)),
      ObjCell("ImportObject", "caller", NoObj)>>

\* The caller's buffers of tags: the params and the returns it makes a function
\* from, MaxSigLen tags in all, and a buffer and a u32 nothing was written to.
TagBufs ==
    {[params |-> SubSeq(s, 1, c), returns |-> SubSeq(s, c + 1, Len(s)),
      buf |-> [i \in 1..(MaxSigLen + 1) |-> "uninit"], result |-> <<>>] :
        <<s, c>> \in {x \in (UNION {[1..n -> ValueTags] : n \in 0..MaxSigLen})
                            \X (0..MaxSigLen) : x[2] <= Len(x[1])}}

InitFunc == \E t \in TagBufs : Start(FuncHeap, <<>>, NoModule, t)

----------------------------------------------------------------------------
(* The inputs of the calls. *)

ImportObjects == {a \in DOMAIN heap : heap[a].ty = "ImportObject"}

Extend ==
    \E len \in 0..MaxImports :
        \E start \in 1..(Len(callerImports) - len + 1) :
            wasmer_import_object_extend(SubSeq(callerImports, start, start + len - 1))

GetImport ==
    \E ns \in CallerStrings, name \in CallerStrings, tag \in 0..4,
       import \in {NULL, ImportOutPtr}, import_export_value \in {NULL, ValueSlotPtr} :
        wasmer_import_object_get_import(ns, name, import, import_export_value, tag)

GetFunctions ==
    \E import_object \in {NULL} \cup ImportObjects, imports \in {NULL} \cup BufIds,
       imports_len \in 0..MaxCap, order \in IterationOrders(registry) :
        wasmer_import_object_get_functions(import_object, imports, imports_len, order)

ImportsDestroy ==
    \E imports \in BufIds : wasmer_import_object_imports_destroy(imports)

\* The caller builds the registry before it queries it.
BuildThenLookup == calls.get_import = 0 /\ Extend
BuildThenBatch == (\A b \in BufIds : bufs[b] = EmptyBuf) /\ Extend

NextLookup == BuildThenLookup \/ GetImport
SpecLookup == Init /\ [][NextLookup]_vars

NextBatch == BuildThenBatch \/ GetFunctions \/ ImportsDestroy
SpecBatch == Init /\ [][NextBatch]_vars

Next == Extend \/ GetImport \/ GetFunctions \/ ImportsDestroy
Spec == Init /\ [][Next]_vars

\* The descriptors of a module: the list is built once, then read.
Descriptors == ~descriptors.built /\ wasmer_import_descriptors(ModulePtr)
DescriptorsLen ==
    \E exports \in {NULL, DescriptorsPtr} :
        /\ exports # NULL => descriptors.built
        /\ wasmer_import_descriptors_len(exports)
DescriptorsGet ==
    \E import_descriptors \in {NULL, DescriptorsPtr}, idx \in 0..MaxModuleImports :
        /\ import_descriptors # NULL => descriptors.built
        /\ wasmer_import_descriptors_get(import_descriptors, idx)
DescriptorPtrs == {DescriptorPtr(i - 1) : i \in DOMAIN descriptors.list}
DescriptorName ==
    \E d \in DescriptorPtrs : wasmer_import_descriptor_name(d)
DescriptorModuleName ==
    \E d \in DescriptorPtrs : wasmer_import_descriptor_module_name(d)
DescriptorKind ==
    \E d \in DescriptorPtrs : wasmer_import_descriptor_kind(d)

NextDesc ==
    \/ Descriptors
    \/ DescriptorsLen
    \/ DescriptorsGet
    \/ DescriptorName
    \/ DescriptorModuleName
    \/ DescriptorKind
SpecDesc == InitDesc /\ [][NextDesc]_vars

\* A function entity: the caller makes one function from its buffers of tags,
\* merges it under one key, retrieves it, and reads a signature once, into the
\* buffer and the u32 nothing was written to.
CallerFunctions ==
    {a \in DOMAIN heap : heap[a].owner = "caller" /\ heap[a].obj.variant = "Function"}
Exports == {a \in DOMAIN heap : heap[a].ty = "Export"}
IntrospectionOps == {"func_params_arity", "func_returns_arity", "func_params", "func_returns"}
NothingRead == last.op \notin IntrospectionOps

FuncNew ==
    /\ NothingRead
    /\ CallerFunctions = {}
    /\ wasmer_import_func_new(HostFunc, Len(tagbuf.params), Len(tagbuf.returns))
ExtendFunc ==
    /\ NothingRead
    /\ calls.get_import = 0
    /\ \E f \in CallerFunctions, name \in CallerStrings :
          wasmer_import_object_extend(<<ImportRecord(heap, name, name, WASM_FUNCTION, f)>>)
GetImportFunc ==
    /\ NothingRead
    /\ \E name \in CallerStrings :
          wasmer_import_object_get_import(name, name, ImportOutPtr, ValueSlotPtr, 0)
FuncParamsArity ==
    NothingRead /\ \E func \in Exports : wasmer_import_func_params_arity(func)
FuncReturnsArity ==
    NothingRead /\ \E func \in Exports : wasmer_import_func_returns_arity(func)
FuncParams ==
    NothingRead /\ \E func \in Exports, len \in 0..Len(tagbuf.buf) :
                      wasmer_import_func_params(func, len)
FuncReturns ==
    NothingRead /\ \E func \in Exports, len \in 0..Len(tagbuf.buf) :
                      wasmer_import_func_returns(func, len)

NextFunc ==
    \/ FuncNew
    \/ ExtendFunc
    \/ GetImportFunc
    \/ FuncParamsArity
    \/ FuncReturnsArity
    \/ FuncParams
    \/ FuncReturns
SpecFunc == InitFunc /\ [][NextFunc]_vars

\* A caller that uses the whole boundary on one small registry.  Addresses 1-2:
\* name bytes, valid and not; 3: a function made by wasmer_import_func_new; 4: a
\* memory; 5: an Export that is a memory; 6-9: initialised storage of each type
\* for get_import to write to; 10: the ImportObject.
BoundaryHeap ==
    <<BytesCell("caller", BytesFe), BytesCell("caller", BytesCut),
      ObjCell("Export", "caller", Func1),
      ObjCell("Memory", "caller", HandleExport("Memory", 1)),
      ObjCell("Export", "caller", HandleExport("Memory", 1)),
      ObjCell("Export", "out", FunctionExport(0, <<>>, <<>>)),
      ObjCell("Memory", "out", HandleExport("Memory", 0)),
      ObjCell("Table", "out", HandleExport("Table", 0)),
      ObjCell("Global", "out", HandleExport("Global", 0)),
      ObjCell("ImportObject", "caller", NoObj)>>

BoundaryArray ==
    <<ImportRecord(BoundaryHeap, 1, 1, WASM_FUNCTION, 3),
      ImportRecord(BoundaryHeap, 1, 1, WASM_MEMORY, 4),
      ImportRecord(BoundaryHeap, 2, 1, WASM_FUNCTION, 3),
      ImportRecord(BoundaryHeap, 1, 2, WASM_MEMORY, 4)>>

BoundaryTags ==
    [params |-> <<>>, returns |-> <<>>,
     buf |-> [i \in 1..(MaxSigLen + 1) |-> "uninit"], result |-> <<>>]

InitBoundary == Start(BoundaryHeap, BoundaryArray, NoModule, BoundaryTags)

\* The calls on the registry need it alive, a record is handed over while the
\* entity it points to is alive, and a signature read is the caller's last call.
RegistryAlive == ImportObjects # {} /\ NothingRead
ExtendAlive ==
    /\ RegistryAlive
    /\ \E len \in 0..MaxImports :
          \E start \in 1..(Len(callerImports) - len + 1) :
              LET imports == SubSeq(callerImports, start, start + len - 1)
              IN  /\ \A i \in DOMAIN imports : imports[i].value \in DOMAIN heap
                  /\ wasmer_import_object_extend(imports)
GetImportAlive == RegistryAlive /\ GetImport
GetFunctionsOnce ==
    /\ NothingRead
    /\ \E import_object \in {NULL} \cup ImportObjects, imports \in {NULL, 1},
          imports_len \in 0..MaxCap, order \in IterationOrders(registry) :
            wasmer_import_object_get_functions(import_object, imports, imports_len, order)
FuncDestroy ==
    /\ NothingRead
    /\ \E func \in {NULL} \cup CallerFunctions : wasmer_import_func_destroy(func)
ImportObjectDestroy ==
    /\ NothingRead
    /\ \E import_object \in {NULL} \cup ImportObjects :
          wasmer_import_object_destroy(import_object)

NextBoundary ==
    \/ ExtendAlive
    \/ GetImportAlive
    \/ GetFunctionsOnce
    \/ FuncDestroy
    \/ ImportObjectDestroy
    \/ FuncParamsArity
    \/ FuncReturnsArity
    \/ FuncParams
    \/ FuncReturns
SpecBoundary == InitBoundary /\ [][NextBoundary]_vars

----------------------------------------------------------------------------
(* Properties of get_import and extend, checked under SpecLookup. *)

\* The arguments of a get_import call l, read as the callee reads them.
QueryKey(l) == <<heap[l.namespace].bytes, heap[l.name].bytes>>
QueryIsText(l) == Utf8Valid(heap[l.namespace].bytes) /\ Utf8Valid(heap[l.name].bytes)
QueryValid(l) ==
    /\ QueryIsText(l)
    /\ KindTryFrom(l.tag).ok
    /\ l.import # NULL
    /\ l.import_export_value # NULL

\* The keys the records of an extend call l name.
KeysOf(l) == {KeyOfImport(heap, l.imports[i]) : i \in DOMAIN l.imports}

\* C1: for every registry state and every (namespace, name) that holds an entity
\* of kind K, a get_import call with an expected tag T different from K returns
\* WASMER_ERROR and writes nothing: the output record (tag, value, module_name,
\* import_name) and the storage behind the value slot are as before the call; with
\* both output pointers given, the error names the found and the expected kind.
C1_KindMismatch ==
    [][(/\ last'.op = "get_import"
        /\ QueryIsText(last')
        /\ KindTryFrom(last'.tag).ok
        /\ QueryKey(last') \in DOMAIN registry
        /\ KindOf(registry[QueryKey(last')]) # KindTryFrom(last'.tag).kind)
       => /\ last'.ret = WASMER_ERROR
          /\ import_out' = import_out
          /\ heap' = heap
          /\ (last'.import # NULL /\ last'.import_export_value # NULL)
                => last_error' = ErrFound(KindToStr(KindOf(registry[QueryKey(last')])),
                                          KindTryFrom(last'.tag).kind)]_vars

\* A lookup with both output pointers given failed on the kinds of a stored entity.
C1_Witness ==
    /\ last.op = "get_import"
    /\ last.ret = WASMER_ERROR
    /\ QueryValid(last)
    /\ QueryKey(last) \in DOMAIN registry
    /\ KindOf(registry[QueryKey(last)]) # KindTryFrom(last.tag).kind
    /\ last_error[1] = "Found, expected"

\* C2: after any sequence of extend calls, a get_import call with valid arguments
\* succeeds, with the output record's tag equal to the kind of the stored entity,
\* when its key is present and its tag is that kind; and it returns WASMER_ERROR
\* (not found) for every key no record ever inserted, also when the key shares
\* its namespace or its name with an inserted one.
C2_LookupAfterExtend ==
    (last.op = "get_import" /\ QueryValid(last))
    => LET key == QueryKey(last)
           T == KindTryFrom(last.tag).kind
       IN  /\ (key \in DOMAIN registry /\ KindOf(registry[key]) = T)
                 => /\ last.ret = WASMER_OK
                    /\ import_out.tag = T
           /\ key \notin DOMAIN merged
                 => /\ last.ret = WASMER_ERROR
                    /\ last_error = ErrNotFound(key[1], key[2])

\* A valid lookup of a key never inserted failed, while the registry holds one
\* entry with the key's namespace and another with the key's name.
C2_Witness ==
    /\ last.op = "get_import"
    /\ QueryValid(last)
    /\ last.ret = WASMER_ERROR
    /\ QueryKey(last) \notin DOMAIN merged
    /\ \E k \in DOMAIN registry : k[1] = QueryKey(last)[1] /\ k[2] # QueryKey(last)[2]
    /\ \E k \in DOMAIN registry : k[2] = QueryKey(last)[2] /\ k[1] # QueryKey(last)[1]

\* C5: if any record of an extend call has a module name or an import name that is
\* not valid UTF-8, the call returns WASMER_ERROR and the registry is exactly as
\* before the call: no record of the call is applied, the valid ones before the
\* invalid one included.
C5_ExtendAllOrNothing ==
    [][(/\ last'.op = "extend"
        /\ \E i \in DOMAIN last'.imports : ~ImportIsText(heap, last'.imports[i]))
       => /\ last'.ret = WASMER_ERROR
          /\ registry' = registry
          /\ heap' = heap]_vars

\* An extend call failed on its second record, the first being valid and under a
\* key the registry did not hold.
C5_Witness ==
    /\ last.op = "extend"
    /\ last.ret = WASMER_ERROR
    /\ Len(last.imports) >= 2
    /\ ImportIsText(heap, last.imports[1])
    /\ ~ImportIsText(heap, last.imports[2])
    /\ KeyOfImport(heap, last.imports[1]) \notin DOMAIN registry

\* C6: when records with one (namespace, name) are merged, in one extend list or
\* in successive extend calls, the registry holds, and a later lookup of the pair
\* returns, the entity of the last such record in application order; the entries
\* under keys the call does not name are as before.
C6_LastWriteWins ==
    [][/\ last'.op = "extend"
          => \A k \in DOMAIN registry \ KeysOf(last') :
                k \in DOMAIN registry' /\ registry'[k] = registry[k]
       /\ (last'.op = "extend" /\ last'.ret = WASMER_OK)
          => \A i \in DOMAIN last'.imports :
                (\A j \in DOMAIN last'.imports :
                    j > i => KeyOfImport(heap, last'.imports[j])
                                # KeyOfImport(heap, last'.imports[i]))
                => /\ KeyOfImport(heap, last'.imports[i]) \in DOMAIN registry'
                   /\ registry'[KeyOfImport(heap, last'.imports[i])]
                        = EntityOfImport(heap, last'.imports[i])
       /\ (last'.op = "get_import" /\ last'.ret = WASMER_OK)
          => /\ QueryKey(last') \in DOMAIN merged
             /\ heap'[import_out'.value].obj = merged[QueryKey(last')]]_vars

\* An extend call of two records with one key and different entities replaced the
\* entity an earlier call had stored under that key by the second record's, while
\* the registry holds an entry under another key.
C6_Witness ==
    /\ last.op = "extend"
    /\ last.ret = WASMER_OK
    /\ Len(last.imports) = 2
    /\ LET first == last.imports[1]
           second == last.imports[2]
           key == KeyOfImport(heap, second)
       IN  /\ KeyOfImport(heap, first) = key
           /\ EntityOfImport(heap, first) # EntityOfImport(heap, second)
           /\ key \in DOMAIN last.replaced
           /\ last.replaced[key] # EntityOfImport(heap, second)
           /\ registry[key] = EntityOfImport(heap, second)
           /\ DOMAIN registry # {key}

\* C11 as stated: on a successful get_import the callee makes exactly one new
\* allocation, a boxed clone of the found entity, and the record's value (a copy
\* of the value slot) points to that new box.
C11_NewBox ==
    [][(last'.op = "get_import" /\ last'.ret = WASMER_OK)
       => LET new == DOMAIN heap' \ DOMAIN heap
          IN  /\ Cardinality(new) = 1
              /\ import_out'.value \in new
              /\ heap'[import_out'.value].obj = registry[QueryKey(last')]]_vars

\* C11, amended: on a successful get_import the callee makes no allocation: it
\* writes a clone of the found entity to the storage the caller's value slot
\* already points to, which the caller allocated and still owns, leaves every
\* other allocation as it was, and copies the tag, that slot and the namespace
\* and name byte arrays into the output record, so that the record's value is the
\* caller's own pointer and the clone is behind it.
C11_CloneInCallerStorage ==
    [][(last'.op = "get_import" /\ last'.ret = WASMER_OK)
       => /\ DOMAIN heap' = DOMAIN heap
          /\ brk' = brk
          /\ import_out'.value = last'.slot
          /\ heap[last'.slot].owner = "out"
          /\ heap'[last'.slot].owner = "out"
          /\ heap'[last'.slot].obj = registry[QueryKey(last')]
          /\ \A a \in DOMAIN heap \ {last'.slot} : heap'[a] = heap[a]
          /\ import_out'.tag = KindOf(registry[QueryKey(last')])
          /\ import_out'.module_name = StringArg(last'.namespace)
          /\ import_out'.import_name = StringArg(last'.name)]_vars

\* A function was retrieved: its clone is in the caller's storage, which held
\* another function before, and no allocation was made since the start.
C11_Witness ==
    /\ last.op = "get_import"
    /\ last.ret = WASMER_OK
    /\ import_out.tag = WASM_FUNCTION
    /\ import_out.value = last.slot
    /\ heap[last.slot].obj = registry[QueryKey(last)]
    /\ heap[last.slot].obj # CallerHeap[last.slot].obj
    /\ DOMAIN heap = DOMAIN CallerHeap

\* The reasons other than a kind mismatch for which a get_import call l fails.
QueryFailsEarly(l) ==
    \/ ~KindTryFrom(l.tag).ok
    \/ ~QueryIsText(l)
    \/ l.import = NULL
    \/ l.import_export_value = NULL
    \/ QueryKey(l) \notin DOMAIN registry

\* C14: a get_import call that fails for a reason other than a kind mismatch (tag
\* out of range, namespace or name not valid UTF-8, record pointer or value-slot
\* pointer absent, key not found) returns WASMER_ERROR and has written neither
\* the output record nor the memory the value slot points to.
C14_NoPartialWrite ==
    [][(last'.op = "get_import" /\ QueryFailsEarly(last'))
       => /\ last'.ret = WASMER_ERROR
          /\ import_out' = import_out
          /\ heap' = heap]_vars

\* A lookup with valid arguments failed on a key the registry, which is not
\* empty, does not hold.
C14_Witness ==
    /\ last.op = "get_import"
    /\ last.ret = WASMER_ERROR
    /\ QueryValid(last)
    /\ QueryKey(last) \notin DOMAIN registry
    /\ registry # EmptyRegistry
    /\ import_out = UninitImport
    /\ heap = CallerHeap

----------------------------------------------------------------------------
(* Properties of get_functions and imports_destroy, checked under SpecBatch. *)

FunctionKeys(reg) == {k \in DOMAIN reg : reg[k].variant = "Function"}

\* The last call was get_functions with both pointers given.
BatchCall ==
    /\ last.op = "get_functions"
    /\ last.import_object # NULL
    /\ last.imports # NULL

\* The records of an array that were written.
WrittenIn(recs) == {i \in DOMAIN recs : recs[i] # UninitImport}
\* The <<namespace, name>> a written record's byte arrays hold.
RecordKey(h, rec) == <<SliceOf(h, rec.module_name), SliceOf(h, rec.import_name)>>

\* C3: with N Function entries in the registry, in any iteration order among any
\* Memory, Table and Global entries, and a capacity C < N, get_functions writes
\* exactly C records, those at indices 0..C-1, and returns C; no record at an
\* index >= C, the one behind the array included, is written.
C3_Truncation ==
    (BatchCall /\ last.imports_len < Cardinality(FunctionKeys(registry)))
    => /\ last.ret = last.imports_len
       /\ WrittenIn(bufs[last.imports].recs) = 1..last.imports_len

\* A call with 0 < C < N on a registry that also holds an entry of another kind.
C3_Witness ==
    /\ BatchCall
    /\ 0 < last.imports_len
    /\ last.imports_len < Cardinality(FunctionKeys(registry))
    /\ DOMAIN registry # FunctionKeys(registry)
    /\ last.ret = last.imports_len

\* C4: get_functions writes records for Function entries only: every record it
\* writes has tag WASM_FUNCTION, the (namespace, name) of a Function entry and a
\* clone of that entry; Memory, Table and Global entries take no slot; no entry is
\* written twice; and with a capacity C >= N the count returned is N, every
\* Function entry being written exactly once.
C4_FunctionsOnly ==
    BatchCall
    => LET recs == bufs[last.imports].recs
           k == last.ret
           N == Cardinality(FunctionKeys(registry))
       IN  /\ k \in 0..last.imports_len
           /\ WrittenIn(recs) = 1..k
           /\ \A i \in 1..k :
                /\ recs[i].tag = WASM_FUNCTION
                /\ RecordKey(heap, recs[i]) \in FunctionKeys(registry)
                /\ heap[recs[i].value].obj = registry[RecordKey(heap, recs[i])]
           /\ \A i, j \in 1..k :
                i # j => RecordKey(heap, recs[i]) # RecordKey(heap, recs[j])
           /\ last.imports_len >= N
                => /\ k = N
                   /\ {RecordKey(heap, recs[i]) : i \in 1..k} = FunctionKeys(registry)

\* A call with C >= N = 2 on a registry that also holds an entry of another kind.
C4_Witness ==
    /\ BatchCall
    /\ Cardinality(FunctionKeys(registry)) = 2
    /\ last.imports_len >= 2
    /\ last.ret = 2
    /\ DOMAIN registry # FunctionKeys(registry)

\* The byte arrays of the first k records that are not empty, as <<index, field>>.
NonEmptyNames(recs, k) ==
    {<<i, "module_name">> : i \in {j \in 1..k : recs[j].module_name.bytes_len > 0}}
    \cup {<<i, "import_name">> : i \in {j \in 1..k : recs[j].import_name.bytes_len > 0}}
\* The pointers the first k records hold to allocations.
NamePointers(recs, k) ==
    {recs[i].module_name.bytes : i \in {j \in 1..k : recs[j].module_name.bytes_len > 0}}
    \cup {recs[i].import_name.bytes : i \in {j \in 1..k : recs[j].import_name.bytes_len > 0}}
BoxPointers(recs, k) == {recs[i].value : i \in 1..k}

\* C10 as stated: a get_functions call that returns k >= 0 creates exactly 3k new
\* allocations, pairwise distinct: a namespace buffer, a name buffer and a boxed
\* clone for each record written.
C10_ThreePerRecord ==
    (last.op = "get_functions" /\ last.ret >= 0)
    => LET b == bufs[last.imports]
       IN  /\ Cardinality(b.allocs) = 3 * last.ret
           /\ b.allocs = {b.recs[i].module_name.bytes : i \in 1..last.ret}
                         \cup {b.recs[i].import_name.bytes : i \in 1..last.ret}
                         \cup BoxPointers(b.recs, last.ret)

\* C10, amended: a get_functions call that returns k >= 0 creates one boxed clone
\* for each of the k records written and one byte buffer for each namespace and
\* each name that is not empty (an empty one owns no allocation), all pairwise
\* distinct, and leaves every other allocation as it was; one following
\* imports_destroy on that array with length k releases exactly those
\* allocations, each once, and nothing else (no allocation of the registry, of the
\* caller or of another get_functions call), so that none of them is live after.
C10_AllocationsPaired ==
    [][/\ (last'.op = "get_functions" /\ last'.ret >= 0)
          => LET recs == bufs'[last'.imports].recs
                 k == last'.ret
                 new == DOMAIN heap' \ DOMAIN heap
             IN  /\ new = bufs'[last'.imports].allocs
                 /\ new = BoxPointers(recs, k) \cup NamePointers(recs, k)
                 /\ Cardinality(new) = k + Cardinality(NonEmptyNames(recs, k))
                 /\ \A a \in DOMAIN heap : a \in DOMAIN heap' /\ heap'[a] = heap[a]
       /\ last'.op = "imports_destroy"
          => /\ last'.imports_len = bufs[last'.imports].count
             /\ DOMAIN heap \ DOMAIN heap' = bufs[last'.imports].allocs
             /\ bufs[last'.imports].allocs \subseteq DOMAIN heap
             /\ \A a \in DOMAIN heap' : a \in DOMAIN heap /\ heap'[a] = heap[a]
             /\ fault' = FALSE]_vars

\* An array holding a record with an empty namespace was destroyed while the
\* allocations of another get_functions call are live.
C10_Witness ==
    /\ last.op = "imports_destroy"
    /\ last.imports_len >= 1
    /\ \E i \in 1..last.imports_len :
          bufs[last.imports].recs[i].module_name.bytes_len = 0
    /\ bufs[last.imports].allocs \cap DOMAIN heap = {}
    /\ \E b \in BufIds \ {last.imports} :
          /\ bufs[b].count >= 1
          /\ bufs[b].allocs \subseteq DOMAIN heap

----------------------------------------------------------------------------
(* Properties of the import descriptors, checked under SpecDesc. *)

\* The number of imports of the module, and the table and the entry the import
\* at position p (counted from 1, functions first, then tables, globals,
\* memories) comes from.
TotalImports ==
    Len(module.imported_functions) + Len(module.imported_tables)
        + Len(module.imported_globals) + Len(module.imported_memories)
ImportAt(p) ==
    LET nf == Len(module.imported_functions)
        nt == Len(module.imported_tables)
        ng == Len(module.imported_globals)
    IN  IF p <= nf
        THEN [kind |-> WASM_FUNCTION, entry |-> module.imported_functions[p]]
        ELSE IF p <= nf + nt
        THEN [kind |-> WASM_TABLE, entry |-> module.imported_tables[p - nf][1]]
        ELSE IF p <= nf + nt + ng
        THEN [kind |-> WASM_GLOBAL, entry |-> module.imported_globals[p - nf - nt][1]]
        ELSE [kind |-> WASM_MEMORY,
              entry |-> module.imported_memories[p - nf - nt - ng][1]]
ModuleNameAt(p) == module.namespace_table[ImportAt(p).entry.namespace_index + 1]
NameAt(p) == module.name_table[ImportAt(p).entry.name_index + 1]

\* C7: the list wasmer_import_descriptors builds has as many descriptors as the
\* module's four import tables have entries and is, position by position, the
\* function imports, then the table imports, then the global imports, then the
\* memory imports, each in its table's order; a descriptor has the kind of its
\* table, the namespace table's string at its entry's namespace index as module
\* name and the name table's string at its entry's name index as name; and the
\* length and the accessors report just that.
C7_DescriptorOrder ==
    descriptors.built
    => /\ Len(descriptors.list) = TotalImports
       /\ \A p \in 1..TotalImports :
            /\ descriptors.list[p].kind = ImportAt(p).kind
            /\ descriptors.list[p].module = ModuleNameAt(p)
            /\ descriptors.list[p].name = NameAt(p)
       /\ (last.op = "import_descriptors_len" /\ last.exports # NULL)
            => last.ret = TotalImports
       /\ (last.op = "import_descriptors_get" /\ last.import_descriptors # NULL
           /\ last.idx < TotalImports)
            => last.ret = DescriptorPtr(last.idx)
       /\ last.op = "import_descriptor_kind"
            => last.ret = ImportAt(last.import_descriptor[2] + 1).kind
       /\ last.op = "import_descriptor_module_name"
            => last.ret = ByteArrayOver(ModuleNameAt(last.import_descriptor[2] + 1))
       /\ last.op = "import_descriptor_name"
            => last.ret = ByteArrayOver(NameAt(last.import_descriptor[2] + 1))

\* The list of a module with two function imports of different names, one table
\* import, no global import and one memory import, read at its last position.
C7_Witness ==
    /\ descriptors.built
    /\ Len(module.imported_functions) = 2
    /\ module.imported_functions[1] # module.imported_functions[2]
    /\ Len(module.imported_tables) = 1
    /\ Len(module.imported_globals) = 0
    /\ Len(module.imported_memories) = 1
    /\ last.op = "import_descriptor_kind"
    /\ last.import_descriptor = DescriptorPtr(3)
    /\ last.ret = WASM_MEMORY

----------------------------------------------------------------------------
(* Properties of function entities, checked under SpecFunc. *)

\* The entity get_import wrote is the one read last.
ReadRetrieved ==
    /\ last.op \in IntrospectionOps
    /\ import_out.tag = WASM_FUNCTION
    /\ last.func = import_out.value

FuncPtrErrorOps ==
    {"wasmer_import_func_params_arity", "wasmer_import_func_results_arity",
     "wasmer_import_func_params", "wasmer_import_func_returns"}

\* C9: each of wasmer_import_func_params_arity, _returns_arity, _params and
\* _returns, applied to an entity that is a Memory, a Table or a Global, returns
\* WASMER_ERROR and writes nothing to its result or its buffer.
C9_NotAFunction ==
    [][(/\ last'.op \in IntrospectionOps
        /\ heap[last'.func].obj.variant \in {"Memory", "Table", "Global"})
       => /\ last'.ret = WASMER_ERROR
          /\ tagbuf' = tagbuf
          /\ heap' = heap
          /\ last_error' \in {ErrFuncPtr(op) : op \in FuncPtrErrorOps}]_vars

\* The returns arity of a Global was asked for.
C9_Witness ==
    /\ last.op = "func_returns_arity"
    /\ heap[last.func].obj.variant = "Global"
    /\ last.ret = WASMER_ERROR
    /\ tagbuf.result = <<>>

----------------------------------------------------------------------------
(* Properties of the boundary as a whole, checked under SpecBoundary. *)

\* The first part of the messages get_import and extend record.
GetImportMessages ==
    {ErrTagRange[1], ErrNamespaceUtf8[1], ErrNameUtf8[1], ErrNullOut[1],
     ErrFound("", WASM_FUNCTION)[1], ErrNotFound(<<>>, <<>>)[1]}
ExtendMessages == {ErrModuleName[1], ErrImportName[1]}
\* The name each signature reader puts in its message.
ReaderName(op) ==
    CASE op = "func_params_arity" -> "wasmer_import_func_params_arity"
      [] op = "func_returns_arity" -> "wasmer_import_func_results_arity"
      [] op = "func_params" -> "wasmer_import_func_params"
      [] op = "func_returns" -> "wasmer_import_func_returns"

\* The inputs on which each call fails.
GetImportFails(l) ==
    \/ QueryFailsEarly(l)
    \/ KindOf(registry[QueryKey(l)]) # KindTryFrom(l.tag).kind
ExtendFails(l) == \E i \in DOMAIN l.imports : ~ImportIsText(heap, l.imports[i])
ReaderFails(l) == heap[l.func].obj.variant # "Function"
GetFunctionsFails(l) == l.import_object = NULL \/ l.imports = NULL

\* C12: every failure of a fallible call is signalled by its indicator, and the
\* failing call has recorded a last-error message of its own: get_import, extend
\* and the four signature readers return WASMER_ERROR exactly on the inputs they
\* fail on; get_functions returns -1 exactly when the registry pointer or the
\* array pointer is absent, and then nothing was written or allocated.
C12_FailureSignalled ==
    [][/\ last'.op = "get_import"
          => /\ last'.ret = IF GetImportFails(last') THEN WASMER_ERROR ELSE WASMER_OK
             /\ GetImportFails(last')
                => Len(last_error') > 0 /\ last_error'[1] \in GetImportMessages
       /\ last'.op = "extend"
          => /\ last'.ret = IF ExtendFails(last') THEN WASMER_ERROR ELSE WASMER_OK
             /\ ExtendFails(last')
                => Len(last_error') > 0 /\ last_error'[1] \in ExtendMessages
       /\ last'.op \in IntrospectionOps
          => /\ ReaderFails(last') <=> last'.ret = WASMER_ERROR
             /\ ReaderFails(last')
                => /\ Len(last_error') = 2
                   /\ last_error'[1] = ErrFuncPtr("")[1]
                   /\ last_error'[2] = ReaderName(last'.op)
       /\ last'.op = "get_functions"
          => /\ last'.ret >= -1
             /\ GetFunctionsFails(last') <=> last'.ret = -1
             /\ GetFunctionsFails(last')
                => /\ Len(last_error') = 1
                   /\ last_error'[1] = ErrNullArgs[1]
                   /\ bufs' = bufs
                   /\ heap' = heap
                   /\ brk' = brk]_vars

\* get_functions was given a registry that holds an entity and no array: it
\* returned -1 and its message is the last error.
C12_Witness ==
    /\ last.op = "get_functions"
    /\ last.import_object # NULL
    /\ last.imports = NULL
    /\ last.ret = -1
    /\ last_error = ErrNullArgs
    /\ registry # EmptyRegistry
    /\ \A b \in BufIds : bufs[b] = EmptyBuf

\* C13: get_import and get_functions only read the registry: after every such
\* call, successful, failing or truncated, the registry maps the same
\* (namespace, name) keys to the same entities as before it and the ImportObject
\* is the live object it was, whatever calls came before.
C13_QueriesReadOnly ==
    [][last'.op \in {"get_import", "get_functions"}
       => /\ registry' = registry
          /\ \A a \in ImportObjects : a \in DOMAIN heap' /\ heap'[a] = heap[a]]_vars

\* A get_functions call was truncated (no record fits, the registry holds a
\* function) after a lookup had succeeded, and the registry still holds what the
\* extend calls put in.
C13_Witness ==
    /\ last.op = "get_functions"
    /\ last.ret = 0
    /\ last.imports_len = 0
    /\ \E k \in DOMAIN registry : KindOf(registry[k]) = WASM_FUNCTION
    /\ calls.get_import > 0
    /\ import_out # UninitImport
    /\ registry = merged

\* The allocations the records of an extend call l point to: name bytes and
\* entities.
PointedToBy(l) ==
    UNION {{l.imports[i].module_name.bytes, l.imports[i].import_name.bytes,
            l.imports[i].value} : i \in DOMAIN l.imports}

\* C15: extend stores clones and neither takes over nor releases what the caller
\* owns: after a successful extend the caller's records, their name bytes and the
\* entities they point to are live, unchanged and the caller's; destroying the
\* caller's Function entity with wasmer_import_func_destroy releases that one box
\* and leaves the registry as it was, and a following get_import of an entry
\* inserted from it succeeds and yields the inserted function; destroying the
\* registry releases the ImportObject only, and no release hits an allocation
\* that is not live.
C15_ExtendClones ==
    [][/\ (last'.op = "extend" /\ last'.ret = WASMER_OK)
          => /\ callerImports' = callerImports
             /\ heap' = heap
             /\ \A a \in PointedToBy(last') :
                   a \in DOMAIN heap' /\ heap'[a].owner = "caller"
       /\ (last'.op = "func_destroy" /\ last'.func # NULL)
          => /\ registry' = registry
             /\ ~fault'
             /\ DOMAIN heap' = DOMAIN heap \ {last'.func}
             /\ \A a \in DOMAIN heap' : heap'[a] = heap[a]
       /\ (/\ last'.op = "get_import"
           /\ CallerFunctions = {}
           /\ QueryValid(last')
           /\ QueryKey(last') \in DOMAIN merged
           /\ KindOf(merged[QueryKey(last')]) = WASM_FUNCTION
           /\ KindTryFrom(last'.tag).kind = WASM_FUNCTION)
          => /\ last'.ret = WASMER_OK
             /\ heap'[last'.slot].obj = merged[QueryKey(last')]
       /\ (last'.op = "object_destroy" /\ last'.import_object # NULL)
          => /\ ~fault'
             /\ DOMAIN heap' = DOMAIN heap \ {last'.import_object}
             /\ \A a \in DOMAIN heap' : heap'[a] = heap[a]]_vars

\* The caller's function was inserted and then destroyed, and a lookup after that
\* has retrieved the function the registry kept.
C15_Witness ==
    /\ last.op = "get_import"
    /\ last.ret = WASMER_OK
    /\ CallerFunctions = {}
    /\ ~fault
    /\ QueryKey(last) \in DOMAIN merged
    /\ merged[QueryKey(last)] = Func1
    /\ heap[last.slot].obj = Func1
    /\ import_out.value = last.slot

====
